---- MODULE Spec2Model ----
(***************************************************************************)
(* Janus Array: a four-level tree File > Slices > Commands >               *)
(* CommandElements whose nodes carry an absolute byte range, and the       *)
(* reverse lookup find_address that turns a byte offset into Coordinates.  *)
(*                                                                         *)
(* A node is a record with the fields of the Rust struct that the lookup   *)
(* reads: start_abs_address, end_abs_address, absolute_range (a pair       *)
(* <<start, end>>, half open), my_ordinal, and the children vector         *)
(* (slices / commands / elements).  Option<Vec<_>> is a sequence: None     *)
(* and Some(vec![]) are both <<>>, which has_children treats alike.        *)
(* Vectors are 1-based here; ordinals and the loop indices start, end,     *)
(* mid keep the 0-based values of the code.                                *)
(***************************************************************************)
EXTENDS Integers, Sequences, FiniteSets, TLC

\* ---------------------------------------------------------------- bounds
\* The two builders below size their File with File::with_size and query
\* the addresses 0 .. size (size itself lies outside the File).
\* Size of the File and most nodes below the root, for a builder that
\* attaches nodes with any ranges.
FileSize == 2
MaxNodes == 3
\* The same for a builder that attaches only well-formed nodes.
WfFileSize == 4
WfMaxNodes == 4
\* Most setter calls a builder makes on the nodes of a tree of defaults.
MaxSetterCalls == 2

\* ---------------------------------------------------------------- values
\* Option<usize>: None is <<>>, Some(x) is <<x>>.
None == <<>>
Some(x) == <<x>>

\* Coordinates::new
NewCoordinates == [slice |-> None, command |-> None, element |-> None]

\* Result::Ok(coords)
Ok(c) == [tag |-> "Ok", coords |-> c]

\* OffsetLayoutsError variants
AddressOutsideCurrentScope(a, r) ==
    [tag |-> "AddressOutsideCurrentScope", addr |-> a, range |-> r]
InconsistentStructure(a, r) ==
    [tag |-> "InconsistentStructure", addr |-> a, range |-> r]
NotFound(a) == [tag |-> "NotFound", addr |-> a]
SliceIsBroken == [tag |-> "SliceIsBroken"]
CommandIsBroken == [tag |-> "CommandIsBroken"]

IsOk(r) == r.tag = "Ok"
IsErr(r) == r.tag # "Ok"

\* Range<u64>::contains
Contains(r, a) == r[1] <= a /\ a < r[2]

\* ---------------------------------------------------------------- nodes
\* CommandElements after populate_values(start_abs, end_abs, _, _, ordinal)
NewElement(s, e, o) ==
    [start_abs_address |-> s, end_abs_address |-> e,
     absolute_range |-> <<s, e>>, my_ordinal |-> o]

\* Commands after populate_values, elements: None
NewCommand(s, e, o) ==
    [start_abs_address |-> s, end_abs_address |-> e,
     absolute_range |-> <<s, e>>, my_ordinal |-> o, elements |-> <<>>]

\* Slices after populate_values, commands: None
NewSlice(s, e, o) ==
    [start_abs_address |-> s, end_abs_address |-> e,
     absolute_range |-> <<s, e>>, my_ordinal |-> o, commands |-> <<>>]

\* CommandElements::default, Commands::default, Slices::default
DefaultElement == NewElement(0, 0, 0)
DefaultCommand == NewCommand(0, 0, 0)
DefaultSlice == NewSlice(0, 0, 0)

\* File::with_size
WithSize(n) ==
    [start_abs_address |-> 0, end_abs_address |-> n,
     absolute_range |-> <<0, n>>, my_ordinal |-> 0, slices |-> <<>>]

\* ---------------------------------------------------------------- sorting
\* slice::sort_by_key(|c| c.start_abs_address) is a stable sort: equal keys
\* keep their relative order.  InsertByStart puts x behind every element of
\* the sorted prefix whose key is <= x's key.
InsertByStart(x, sorted) ==
    LET k == Cardinality({i \in 1 .. Len(sorted) :
                 sorted[i].start_abs_address <= x.start_abs_address})
    IN SubSeq(sorted, 1, k) \o <<x>> \o SubSeq(sorted, k + 1, Len(sorted))

RECURSIVE SortByKeyStart(_)
SortByKeyStart(v) ==
    IF v = <<>> THEN <<>>
    ELSE InsertByStart(v[Len(v)], SortByKeyStart(SubSeq(v, 1, Len(v) - 1)))

\* ----------------------------------------------------- CommandElements
\* A variant that takes the range as closed at its end.
ElementFindAddressInclusive(el, a) ==
    IF el.absolute_range[1] <= a /\ a <= el.absolute_range[2]
    THEN Ok([NewCoordinates EXCEPT !.element = Some(el.my_ordinal)])
    ELSE AddressOutsideCurrentScope(a, el.absolute_range)

ElementFindAddress(el, a) ==
    IF Contains(el.absolute_range, a)
    THEN Ok([NewCoordinates EXCEPT !.element = Some(el.my_ordinal)])
    ELSE AddressOutsideCurrentScope(a, el.absolute_range)

\* ------------------------------------------------------------ Commands
CommandsHasChildren(c) == Len(c.elements) > 0

\* Commands::sort_children: the node with its elements sorted in place.
CommandsSortChildren(c) == [c EXCEPT !.elements = SortByKeyStart(c.elements)]

\* Commands::get_children: <<node after the call, returned vector or None>>.
CommandsGetChildren(c) ==
    IF CommandsHasChildren(c)
    THEN LET d == CommandsSortChildren(c) IN <<d, Some(d.elements)>>
    ELSE <<c, None>>

\* Which way the Commands loop goes at children[mid] when its range does
\* not contain the address.
CommandsBelowMin(a, child) == a < child.start_abs_address
CommandsAboveMax(a, child) == a > child.end_abs_address

\* The while loop of Commands::find_address over the sorted copy: the
\* outcome is "found" at mid, "inconsistent" at mid, or "exhausted".
RECURSIVE CommandsLoop(_, _, _, _)
CommandsLoop(children, a, start, end) ==
    IF start > end THEN [kind |-> "exhausted"]
    ELSE LET mid == (start + end) \div 2
             child == children[mid + 1]
         IN IF Contains(child.absolute_range, a)
            THEN [kind |-> "found", mid |-> mid]
            ELSE IF CommandsBelowMin(a, child)
                 THEN IF mid = 0 THEN [kind |-> "exhausted"]
                      ELSE CommandsLoop(children, a, start, mid - 1)
                 ELSE IF CommandsAboveMax(a, child)
                      THEN CommandsLoop(children, a, mid + 1, end)
                      ELSE [kind |-> "inconsistent", mid |-> mid]

\* One iteration of the while loop of Commands::find_address, entered with
\* start <= end: the mid it probes and what it does next.  "found" and
\* "inconsistent" return, "break" leaves the loop at mid = 0, "left" goes
\* on with end = mid - 1 and "right" with start = mid + 1.
CommandsLoopStep(children, a, start, end) ==
    LET mid == (start + end) \div 2
        child == children[mid + 1]
    IN IF Contains(child.absolute_range, a)
       THEN [kind |-> "found", start |-> start, end |-> end, mid |-> mid]
       ELSE IF CommandsBelowMin(a, child)
            THEN IF mid = 0
                 THEN [kind |-> "break", start |-> start, end |-> end,
                       mid |-> mid]
                 ELSE [kind |-> "left", start |-> start, end |-> end,
                       mid |-> mid]
            ELSE IF CommandsAboveMax(a, child)
                 THEN [kind |-> "right", start |-> start, end |-> end,
                       mid |-> mid]
                 ELSE [kind |-> "inconsistent", start |-> start,
                       end |-> end, mid |-> mid]

\* The iterations the loop of Commands::find_address makes from (start, end),
\* in order, at most `fuel` of them.  An iteration that would index past
\* the vector is recorded as "out_of_bounds" and one that is still due
\* when the fuel is spent as "running".
RECURSIVE CommandsLoopTrace(_, _, _, _, _)
CommandsLoopTrace(children, a, start, end, fuel) ==
    IF start > end THEN <<>>
    ELSE LET mid == (start + end) \div 2
         IN IF fuel = 0
            THEN <<[kind |-> "running", start |-> start, end |-> end,
                    mid |-> mid]>>
            ELSE IF mid < 0 \/ mid >= Len(children)
            THEN <<[kind |-> "out_of_bounds", start |-> start, end |-> end,
                    mid |-> mid]>>
            ELSE LET s == CommandsLoopStep(children, a, start, end)
                 IN <<s>> \o
                    (IF s.kind = "left"
                     THEN CommandsLoopTrace(children, a, start, mid - 1, fuel - 1)
                     ELSE IF s.kind = "right"
                     THEN CommandsLoopTrace(children, a, mid + 1, end, fuel - 1)
                     ELSE <<>>)

\* A variant that returns the coordinates of the child in place of its own.
CommandsMergeReplace(retval, childResult) ==
    IF IsOk(childResult) THEN Ok(childResult.coords) ELSE CommandIsBroken

\* What Commands::find_address does with the child it found.
CommandsMerge(retval, childResult) ==
    IF IsOk(childResult)
    THEN Ok(IF childResult.coords.element # None
            THEN [retval EXCEPT !.element = childResult.coords.element]
            ELSE retval)
    ELSE CommandIsBroken

\* Commands::find_address: <<node after the call, result>>.
CommandsFindAddress(c, a) ==
    IF ~Contains(c.absolute_range, a)
    THEN <<c, AddressOutsideCurrentScope(a, c.absolute_range)>>
    ELSE LET retval == [NewCoordinates EXCEPT !.command = Some(c.my_ordinal)]
         IN IF ~CommandsHasChildren(c) THEN <<c, Ok(retval)>>
            ELSE LET got == CommandsGetChildren(c)
                     children == got[2][1]
                     out == CommandsLoop(children, a, 0, Len(children) - 1)
                 IN <<got[1],
                      CASE out.kind = "found" ->
                              CommandsMerge(retval,
                                  ElementFindAddress(children[out.mid + 1], a))
                        [] out.kind = "inconsistent" ->
                              InconsistentStructure(a,
                                  children[out.mid + 1].absolute_range)
                        [] OTHER -> Ok(retval)>>
\* -------------------------------------------------------------- Slices
\* slices.rs is not among the sources; the Slices level follows the
\* specification's section 4.3 ("Commands and Slices, identical recursive
\* algorithm"), recording the slice index, and section 7 (a failure of the
\* child is returned to the caller).
SlicesHasChildren(s) == Len(s.commands) > 0

SlicesSortChildren(s) == [s EXCEPT !.commands = SortByKeyStart(s.commands)]

SlicesGetChildren(s) ==
    IF SlicesHasChildren(s)
    THEN LET d == SlicesSortChildren(s) IN <<d, Some(d.commands)>>
    ELSE <<s, None>>

RECURSIVE SlicesLoop(_, _, _, _)
SlicesLoop(children, a, start, end) ==
    IF start > end THEN [kind |-> "exhausted"]
    ELSE LET mid == (start + end) \div 2
             child == children[mid + 1]
         IN IF Contains(child.absolute_range, a)
            THEN [kind |-> "found", mid |-> mid]
            ELSE IF a < child.start_abs_address
                 THEN IF mid = 0 THEN [kind |-> "exhausted"]
                      ELSE SlicesLoop(children, a, start, mid - 1)
                 ELSE IF a > child.end_abs_address
                      THEN SlicesLoop(children, a, mid + 1, end)
                      ELSE [kind |-> "inconsistent", mid |-> mid]

SlicesMerge(retval, childResult) ==
    IF IsOk(childResult)
    THEN Ok([retval EXCEPT
               !.command = IF childResult.coords.command # None
                           THEN childResult.coords.command ELSE @,
               !.element = IF childResult.coords.element # None
                           THEN childResult.coords.element ELSE @])
    ELSE childResult

\* Slices::find_address: <<node after the call, result>>.
SlicesFindAddress(s, a) ==
    IF ~Contains(s.absolute_range, a)
    THEN <<s, AddressOutsideCurrentScope(a, s.absolute_range)>>
    ELSE LET retval == [NewCoordinates EXCEPT !.slice = Some(s.my_ordinal)]
         IN IF ~SlicesHasChildren(s) THEN <<s, Ok(retval)>>
            ELSE LET got == SlicesGetChildren(s)
                     children == got[2][1]
                     out == SlicesLoop(children, a, 0, Len(children) - 1)
                 IN <<got[1],
                      CASE out.kind = "found" ->
                              SlicesMerge(retval,
                                  CommandsFindAddress(children[out.mid + 1], a)[2])
                        [] out.kind = "inconsistent" ->
                              InconsistentStructure(a,
                                  children[out.mid + 1].absolute_range)
                        [] OTHER -> Ok(retval)>>

\* ---------------------------------------------------------------- File
FileHasChildren(f) == Len(f.slices) > 0

\* A variant that sorts by the start of the absolute range.
InsertByRangeStart(x, sorted) ==
    LET k == Cardinality({i \in 1 .. Len(sorted) :
                 sorted[i].absolute_range[1] <= x.absolute_range[1]})
    IN SubSeq(sorted, 1, k) \o <<x>> \o SubSeq(sorted, k + 1, Len(sorted))

RECURSIVE SortByRangeStart(_)
SortByRangeStart(v) ==
    IF v = <<>> THEN <<>>
    ELSE InsertByRangeStart(v[Len(v)],
                            SortByRangeStart(SubSeq(v, 1, Len(v) - 1)))

FileSortChildrenByRange(f) == [f EXCEPT !.slices = SortByRangeStart(f.slices)]

\* File::sort_children
FileSortChildren(f) == [f EXCEPT !.slices = SortByKeyStart(f.slices)]

\* A variant that clones the vector before it sorts it.
FileGetChildrenCloneFirst(f) ==
    IF Len(f.slices) > 0
    THEN <<[f EXCEPT !.slices = SortByKeyStart(f.slices)], Some(f.slices)>>
    ELSE <<f, None>>

\* File::get_children: <<file after the call, returned vector or None>>.
FileGetChildren(f) ==
    IF FileHasChildren(f)
    THEN LET d == FileSortChildren(f) IN <<d, Some(d.slices)>>
    ELSE <<f, None>>

\* A variant that skips one address more than the end.
FileAboveMaxOffByOne(a, child) == a > child.end_abs_address + 1

FileBelowMin(a, child) == a < child.start_abs_address
FileAboveMax(a, child) == a > child.end_abs_address

\* The while loop of File::find_address over the sorted copy.
RECURSIVE FileLoop(_, _, _, _)
FileLoop(children, a, start, end) ==
    IF start > end THEN [kind |-> "exhausted"]
    ELSE LET mid == (start + end) \div 2
             child == children[mid + 1]
         IN IF Contains(child.absolute_range, a)
            THEN [kind |-> "found", mid |-> mid]
            ELSE IF FileBelowMin(a, child)
                 THEN IF mid = 0 THEN [kind |-> "exhausted"]
                      ELSE FileLoop(children, a, start, mid - 1)
                 ELSE IF FileAboveMax(a, child)
                      THEN FileLoop(children, a, mid + 1, end)
                      ELSE [kind |-> "inconsistent", mid |-> mid]

\* A variant of the iteration without the `mid == 0` break.
FileLoopStepNoBreak(children, a, start, end) ==
    LET mid == (start + end) \div 2
        child == children[mid + 1]
    IN IF Contains(child.absolute_range, a)
       THEN [kind |-> "found", start |-> start, end |-> end, mid |-> mid]
       ELSE IF FileBelowMin(a, child)
            THEN [kind |-> "left", start |-> start, end |-> end, mid |-> mid]
            ELSE IF FileAboveMax(a, child)
                 THEN [kind |-> "right", start |-> start, end |-> end,
                       mid |-> mid]
                 ELSE [kind |-> "inconsistent", start |-> start,
                       end |-> end, mid |-> mid]

\* One iteration of the while loop of File::find_address, entered with
\* start <= end: the mid it probes and what it does next.  "found" and
\* "inconsistent" return, "break" leaves the loop at mid = 0, "left" goes
\* on with end = mid - 1 and "right" with start = mid + 1.
FileLoopStep(children, a, start, end) ==
    LET mid == (start + end) \div 2
        child == children[mid + 1]
    IN IF Contains(child.absolute_range, a)
       THEN [kind |-> "found", start |-> start, end |-> end, mid |-> mid]
       ELSE IF FileBelowMin(a, child)
            THEN IF mid = 0
                 THEN [kind |-> "break", start |-> start, end |-> end,
                       mid |-> mid]
                 ELSE [kind |-> "left", start |-> start, end |-> end,
                       mid |-> mid]
            ELSE IF FileAboveMax(a, child)
                 THEN [kind |-> "right", start |-> start, end |-> end,
                       mid |-> mid]
                 ELSE [kind |-> "inconsistent", start |-> start,
                       end |-> end, mid |-> mid]

\* The iterations the loop of File::find_address makes from (start, end),
\* in order, at most `fuel` of them.  An iteration that would index past
\* the vector is recorded as "out_of_bounds" and one that is still due
\* when the fuel is spent as "running".
RECURSIVE FileLoopTrace(_, _, _, _, _)
FileLoopTrace(children, a, start, end, fuel) ==
    IF start > end THEN <<>>
    ELSE LET mid == (start + end) \div 2
         IN IF fuel = 0
            THEN <<[kind |-> "running", start |-> start, end |-> end,
                    mid |-> mid]>>
            ELSE IF mid < 0 \/ mid >= Len(children)
            THEN <<[kind |-> "out_of_bounds", start |-> start, end |-> end,
                    mid |-> mid]>>
            ELSE LET s == FileLoopStep(children, a, start, end)
                 IN <<s>> \o
                    (IF s.kind = "left"
                     THEN FileLoopTrace(children, a, start, mid - 1, fuel - 1)
                     ELSE IF s.kind = "right"
                     THEN FileLoopTrace(children, a, mid + 1, end, fuel - 1)
                     ELSE <<>>)

\* A variant that hands the slice's error on as it is.
FileMergePropagate(retval, childResult) ==
    IF IsOk(childResult)
    THEN IF childResult.coords.slice = None THEN SliceIsBroken
         ELSE Ok([retval EXCEPT
                    !.slice = childResult.coords.slice,
                    !.command = IF childResult.coords.command # None
                                THEN childResult.coords.command ELSE @,
                    !.element = IF childResult.coords.element # None
                                THEN childResult.coords.element ELSE @])
    ELSE childResult

\* What File::find_address does with the result of the slice it found.
FileMerge(retval, childResult) ==
    IF IsOk(childResult)
    THEN IF childResult.coords.slice = None THEN SliceIsBroken
         ELSE Ok([retval EXCEPT
                    !.slice = childResult.coords.slice,
                    !.command = IF childResult.coords.command # None
                                THEN childResult.coords.command ELSE @,
                    !.element = IF childResult.coords.element # None
                                THEN childResult.coords.element ELSE @])
    ELSE SliceIsBroken

\* The result File::find_address gives when the file has no slices.
FileNoChildren(f, a) == InconsistentStructure(a, f.absolute_range)

\* The result File::find_address gives when the loop ends without a match.
FileExhausted(a) == NotFound(a)

\* A variant that sorts the slices before it checks the address.
FileFindAddressSortFirst(f, a) ==
    LET g == FileSortChildren(f)
    IN IF ~Contains(g.absolute_range, a)
       THEN <<g, AddressOutsideCurrentScope(a, g.absolute_range)>>
       ELSE IF ~FileHasChildren(g) THEN <<g, FileNoChildren(g, a)>>
            ELSE LET children == g.slices
                     out == FileLoop(children, a, 0, Len(children) - 1)
                 IN <<g,
                      CASE out.kind = "found" ->
                              FileMerge(NewCoordinates,
                                  SlicesFindAddress(children[out.mid + 1], a)[2])
                        [] out.kind = "inconsistent" ->
                              InconsistentStructure(a,
                                  children[out.mid + 1].absolute_range)
                        [] OTHER -> FileExhausted(a)>>

\* A variant that recurses into the stored slice, not into the copy
\* returned by get_children: the slice keeps what the recursion did to it.
FileFindAddressInPlace(f, a) ==
    IF ~Contains(f.absolute_range, a)
    THEN <<f, AddressOutsideCurrentScope(a, f.absolute_range)>>
    ELSE IF ~FileHasChildren(f) THEN <<f, FileNoChildren(f, a)>>
         ELSE LET got == FileGetChildren(f)
                  children == got[2][1]
                  out == FileLoop(children, a, 0, Len(children) - 1)
              IN CASE out.kind = "found" ->
                        LET r == SlicesFindAddress(children[out.mid + 1], a)
                        IN <<[got[1] EXCEPT !.slices[out.mid + 1] = r[1]],
                             FileMerge(NewCoordinates, r[2])>>
                   [] out.kind = "inconsistent" ->
                        <<got[1], InconsistentStructure(a,
                                      children[out.mid + 1].absolute_range)>>
                   [] OTHER -> <<got[1], FileExhausted(a)>>

\* File::find_address: <<file after the call, result>>.
FileFindAddress(f, a) ==
    IF ~Contains(f.absolute_range, a)
    THEN <<f, AddressOutsideCurrentScope(a, f.absolute_range)>>
    ELSE IF ~FileHasChildren(f) THEN <<f, FileNoChildren(f, a)>>
         ELSE LET got == FileGetChildren(f)
                  children == got[2][1]
                  out == FileLoop(children, a, 0, Len(children) - 1)
              IN <<got[1],
                   CASE out.kind = "found" ->
                           FileMerge(NewCoordinates,
                               SlicesFindAddress(children[out.mid + 1], a)[2])
                     [] out.kind = "inconsistent" ->
                           InconsistentStructure(a,
                               children[out.mid + 1].absolute_range)
                     [] OTHER -> FileExhausted(a)>>
\* ================================================================ state
VARIABLES
    file,       \* the stored tree: the File and everything it owns
    op,         \* the last operation: "build", or the method called
    path,       \* the node it was called on: <<>> the File, <<i>> the
                \* slice stored at file.slices[i], <<i, j>>, <<i, j, k>>
    addr,       \* the address of the last find_address
    result,     \* what the last find_address returned
    returned,   \* what the last get_children returned (None or Some(vec))
    setters,    \* setter calls made by the setting builder
    again       \* TRUE when the last operation repeated the one before

vars == <<file, op, path, addr, result, returned, setters, again>>

NoResult == [tag |-> "none"]

Init ==
    /\ file = WithSize(FileSize)
    /\ op = "build"
    /\ path = <<>>
    /\ addr = 0
    /\ result = NoResult
    /\ returned = None
    /\ setters = 0
    /\ again = FALSE

\* Nodes below the root.
CommandNodes(c) == 1 + Len(c.elements)
RECURSIVE SumCommands(_)
SumCommands(v) ==
    IF v = <<>> THEN 0 ELSE CommandNodes(v[1]) + SumCommands(Tail(v))
SliceNodes(s) == 1 + SumCommands(s.commands)
RECURSIVE SumSlices(_)
SumSlices(v) ==
    IF v = <<>> THEN 0 ELSE SliceNodes(v[1]) + SumSlices(Tail(v))
NodeCount(f) == SumSlices(f.slices)

SlicePaths(f) == {<<i>> : i \in 1 .. Len(f.slices)}
CommandPaths(f) ==
    UNION {{<<i, j>> : j \in 1 .. Len(f.slices[i].commands)} :
              i \in 1 .. Len(f.slices)}
ElementPaths(f) ==
    UNION {{<<p[1], p[2], k>> :
               k \in 1 .. Len(f.slices[p[1]].commands[p[2]].elements)} :
              p \in CommandPaths(f)}

SliceAt(f, p) == f.slices[p[1]]
CommandAt(f, p) == f.slices[p[1]].commands[p[2]]
ElementAt(f, p) == f.slices[p[1]].commands[p[2]].elements[p[3]]

\* ---------------------------------------------------------- the builder
\* The parser that owns the tree: it populates a node with populate_values
\* and pushes it on its parent's vector (File::add_slice, or the pub
\* vectors of Slices and Commands).  The ordinal it gives is the index the
\* node gets in the vector.
Building == op = "build" /\ NodeCount(file) < MaxNodes

Built(f) ==
    /\ file' = f
    /\ op' = "build"
    /\ UNCHANGED <<path, addr, result, returned, setters, again>>

Addresses == 0 .. file.end_abs_address

Ranges == {r \in (0 .. FileSize) \X (0 .. FileSize) : r[1] <= r[2]}

AddSlice ==
    /\ Building
    /\ \E r \in Ranges :
         Built([file EXCEPT !.slices =
                   Append(@, NewSlice(r[1], r[2], Len(@)))])

AddCommand ==
    /\ Building
    /\ \E p \in SlicePaths(file), r \in Ranges :
         Built([file EXCEPT !.slices[p[1]].commands =
                   Append(@, NewCommand(r[1], r[2], Len(@)))])

AddElement ==
    /\ Building
    /\ \E p \in CommandPaths(file), r \in Ranges :
         Built([file EXCEPT !.slices[p[1]].commands[p[2]].elements =
                   Append(@, NewElement(r[1], r[2], Len(@)))])

\* ------------------------------------------------- the setting builder
\* A builder that first attaches default() nodes and then fills them in
\* through the setters of the DiskOffsets trait.  populate_values writes
\* start, end and range together; set_start_abs_address and
\* set_absolute_range_explicit write one field and leave the others, so
\* after them start_abs_address and absolute_range may disagree.
\* The tree of defaults: two slices, the first with one command that has
\* two elements.
DefaultTree ==
    [WithSize(FileSize) EXCEPT !.slices =
        <<[DefaultSlice EXCEPT !.commands =
              <<[DefaultCommand EXCEPT !.elements =
                    <<DefaultElement, DefaultElement>>]>>],
          DefaultSlice>>]

\* DiskOffsets::populate_values(start_abs, end_abs, _, _, ordinal)
PopulateValues(n, s, e, o) ==
    [n EXCEPT !.start_abs_address = s, !.end_abs_address = e,
              !.absolute_range = <<s, e>>, !.my_ordinal = o]

\* The children of the File and of the Commands nodes.
SetPaths(f) == SlicePaths(f) \cup ElementPaths(f)

NodeAt(f, p) ==
    IF p = <<>> THEN f
    ELSE IF Len(p) = 1 THEN SliceAt(f, p)
    ELSE IF Len(p) = 2 THEN CommandAt(f, p)
    ELSE ElementAt(f, p)

ReplaceAt(f, p, n) ==
    IF Len(p) = 1 THEN [f EXCEPT !.slices[p[1]] = n]
    ELSE [f EXCEPT !.slices[p[1]].commands[p[2]].elements[p[3]] = n]

Setting == op = "build" /\ setters < MaxSetterCalls

SetterCalled(f) ==
    /\ file' = f
    /\ op' = "build"
    /\ setters' = setters + 1
    /\ UNCHANGED <<path, addr, result, returned, again>>

\* node.populate_values(s, e, _, _, its index in the vector)
Populate ==
    /\ Setting
    /\ \E p \in SetPaths(file), r \in Ranges :
         SetterCalled(ReplaceAt(file, p,
             PopulateValues(NodeAt(file, p), r[1], r[2], p[Len(p)] - 1)))

\* node.set_start_abs_address(v)
SetStartAbsAddress ==
    /\ Setting
    /\ \E p \in SetPaths(file), v \in 0 .. FileSize :
         SetterCalled(ReplaceAt(file, p,
             [NodeAt(file, p) EXCEPT !.start_abs_address = v]))

\* node.set_absolute_range_explicit(r)
SetAbsoluteRangeExplicit ==
    /\ Setting
    /\ \E p \in SetPaths(file), r \in Ranges :
         SetterCalled(ReplaceAt(file, p,
             [NodeAt(file, p) EXCEPT !.absolute_range = r]))

\* ----------------------------------------------- the well-formed builder
\* A builder that keeps the tree well formed: every node covers at least
\* one byte, lies inside its parent, and overlaps no sibling (siblings may
\* touch).  It may attach siblings in any order, and it numbers them by
\* their place in ascending start order (set_ordinal), the builder-side
\* invariant of the design notes.
WfRanges == {r \in (0 .. WfFileSize) \X (0 .. WfFileSize) : r[1] < r[2]}

Inside(r, parent) ==
    parent.absolute_range[1] <= r[1] /\ r[2] <= parent.absolute_range[2]

Overlap(r, q) == r[1] < q[2] /\ q[1] < r[2]

Free(r, siblings) ==
    \A i \in 1 .. Len(siblings) : ~Overlap(r, siblings[i].absolute_range)

\* set_ordinal on every sibling: its rank by start_abs_address.
Renumber(v) ==
    [i \in 1 .. Len(v) |->
        [v[i] EXCEPT !.my_ordinal =
            Cardinality({j \in 1 .. Len(v) :
                v[j].start_abs_address < v[i].start_abs_address})]]

WfBuilding == op = "build" /\ NodeCount(file) < WfMaxNodes

AddSliceWf ==
    /\ WfBuilding
    /\ \E r \in WfRanges :
         /\ Inside(r, file)
         /\ Free(r, file.slices)
         /\ Built([file EXCEPT !.slices =
                      Renumber(Append(@, NewSlice(r[1], r[2], 0)))])

AddCommandWf ==
    /\ WfBuilding
    /\ \E p \in SlicePaths(file), r \in WfRanges :
         /\ Inside(r, SliceAt(file, p))
         /\ Free(r, SliceAt(file, p).commands)
         /\ Built([file EXCEPT !.slices[p[1]].commands =
                      Renumber(Append(@, NewCommand(r[1], r[2], 0)))])

AddElementWf ==
    /\ WfBuilding
    /\ \E p \in CommandPaths(file), r \in WfRanges :
         /\ Inside(r, CommandAt(file, p))
         /\ Free(r, CommandAt(file, p).elements)
         /\ Built([file EXCEPT !.slices[p[1]].commands[p[2]].elements =
                      Renumber(Append(@, NewElement(r[1], r[2], 0)))])

\* ---------------------------------------------------------- the lookups
\* A caller makes one call on the finished tree and may repeat that call.
Calling(o, p, a) == op = "build" \/ (op = o /\ path = p /\ addr = a)

Looked(f, o, p, a, res) ==
    /\ Calling(o, p, a)
    /\ file' = f
    /\ op' = o
    /\ path' = p
    /\ addr' = a
    /\ result' = res
    /\ returned' = None
    /\ again' = (op # "build")
    /\ UNCHANGED setters

\* file.find_address(a)
FileFind ==
    \E a \in Addresses :
        LET r == FileFindAddress(file, a)
        IN Looked(r[1], "find_address", <<>>, a, r[2])

\* file.slices[i].find_address(a)
SlicesFind ==
    \E p \in SlicePaths(file), a \in Addresses :
        LET r == SlicesFindAddress(SliceAt(file, p), a)
        IN Looked([file EXCEPT !.slices[p[1]] = r[1]],
                  "find_address", p, a, r[2])

\* file.slices[i].commands[j].find_address(a)
CommandsFind ==
    \E p \in CommandPaths(file), a \in Addresses :
        LET r == CommandsFindAddress(CommandAt(file, p), a)
        IN Looked([file EXCEPT !.slices[p[1]].commands[p[2]] = r[1]],
                  "find_address", p, a, r[2])

\* file.slices[i].commands[j].elements[k].find_address(a)
ElementFind ==
    \E p \in ElementPaths(file), a \in Addresses :
        Looked(file, "find_address", p, a,
               ElementFindAddress(ElementAt(file, p), a))

\* ------------------------------------------- get_children, sort_children
Fetched(f, o, p, ret) ==
    /\ Calling(o, p, 0)
    /\ file' = f
    /\ op' = o
    /\ path' = p
    /\ returned' = ret
    /\ result' = NoResult
    /\ addr' = 0
    /\ again' = (op # "build")
    /\ UNCHANGED setters

FileGet ==
    LET r == FileGetChildren(file)
    IN Fetched(r[1], "get_children", <<>>, r[2])

FileSort == Fetched(FileSortChildren(file), "sort_children", <<>>, None)

CommandsGet ==
    \E p \in CommandPaths(file) :
        LET r == CommandsGetChildren(CommandAt(file, p))
        IN Fetched([file EXCEPT !.slices[p[1]].commands[p[2]] = r[1]],
                   "get_children", p, r[2])

CommandsSort ==
    \E p \in CommandPaths(file) :
        Fetched([file EXCEPT !.slices[p[1]].commands[p[2]] =
                     CommandsSortChildren(@)],
                "sort_children", p, None)

Next ==
    \/ AddSlice
    \/ AddCommand
    \/ AddElement
    \/ FileFind
    \/ CommandsFind
    \/ ElementFind

Spec == Init /\ [][Next]_vars

InitWf ==
    /\ file = WithSize(WfFileSize)
    /\ op = "build"
    /\ path = <<>>
    /\ addr = 0
    /\ result = NoResult
    /\ returned = None
    /\ setters = 0
    /\ again = FALSE

NextWf ==
    \/ AddSliceWf
    \/ AddCommandWf
    \/ AddElementWf
    \/ FileFind
    \/ SlicesFind
    \/ CommandsFind
    \/ ElementFind

SpecWf == InitWf /\ [][NextWf]_vars

InitSet ==
    /\ file = DefaultTree
    /\ op = "build"
    /\ path = <<>>
    /\ addr = 0
    /\ result = NoResult
    /\ returned = None
    /\ setters = 0
    /\ again = FALSE

NextSet ==
    \/ Populate
    \/ SetStartAbsAddress
    \/ SetAbsoluteRangeExplicit
    \/ FileGet
    \/ FileSort
    \/ CommandsGet
    \/ CommandsSort

SpecSet == InitSet /\ [][NextSet]_vars

\* =============================================================== claims
\* The children vector of the node at path p.
ChildrenAt(f, p) ==
    IF p = <<>> THEN f.slices
    ELSE IF Len(p) = 1 THEN SliceAt(f, p).commands
    ELSE IF Len(p) = 2 THEN CommandAt(f, p).elements
    ELSE <<>>

\* Every node has start/end equal to its range, covers at least one byte,
\* lies inside its parent, and overlaps no sibling.
NodeWellFormed(f, p) ==
    LET n == NodeAt(f, p)
        v == ChildrenAt(f, p)
    IN /\ n.absolute_range = <<n.start_abs_address, n.end_abs_address>>
       /\ n.start_abs_address < n.end_abs_address
       /\ \A i \in 1 .. Len(v) : Inside(v[i].absolute_range, n)
       /\ \A i, j \in 1 .. Len(v) :
             i # j => ~Overlap(v[i].absolute_range, v[j].absolute_range)

WellFormed(f) ==
    \A p \in {<<>>} \cup SlicePaths(f) \cup CommandPaths(f) \cup ElementPaths(f) :
        NodeWellFormed(f, p)

RootLookup == op = "find_address" /\ path = <<>>
CommandsLookup == op = "find_address" /\ Len(path) = 2
InOwnRange == Contains(NodeAt(file, path).absolute_range, addr)

\* The ordinals of the slice, command and element on the way to leaf p.
LeafChain(f, p) ==
    [slice |-> Some(SliceAt(f, p).my_ordinal),
     command |-> Some(CommandAt(f, p).my_ordinal),
     element |-> Some(ElementAt(f, p).my_ordinal)]

\* Only the command index, as a Commands node answers without an element.
OwnCommandOnly(c) == Ok([NewCoordinates EXCEPT !.command = Some(c.my_ordinal)])

\* C1 (Containment): on a well-formed tree, a root lookup of an address
\* that lies in a leaf's absolute range returns Ok with exactly the
\* ordinals of the slice, command and element that contain the address.
C1_Containment ==
    (RootLookup /\ WellFormed(file)) =>
        \A p \in ElementPaths(file) :
            Contains(ElementAt(file, p).absolute_range, addr) =>
                result = Ok(LeafChain(file, p))

\* The address lies after the end of one child and before the start of
\* the next one in ascending order: strictly inside a gap.
InGap(v, a) ==
    LET w == SortByKeyStart(v)
    IN \E i \in 1 .. Len(w) - 1 :
          w[i].absolute_range[2] < a /\ a < w[i + 1].absolute_range[1]

GapLookup ==
    /\ op = "find_address"
    /\ Len(path) \in {0, 2}
    /\ WellFormed(file)
    /\ InOwnRange
    /\ InGap(ChildrenAt(file, path), addr)

\* C2 as claimed (Gap detection): a lookup on a File or Commands node of
\* an address of its range that falls strictly inside a gap between two
\* consecutive children returns InconsistentStructure.
C2_GapDetection == GapLookup => result.tag = "InconsistentStructure"

\* C2 as amended: on a well-formed tree such a lookup is a plain miss: the
\* File returns NotFound(addr), a Commands node returns Ok with its own
\* command index and no element.
C2_GapIsMiss ==
    GapLookup =>
        IF path = <<>> THEN result = NotFound(addr)
        ELSE result = OwnCommandOnly(CommandAt(file, path))

C2_Witness == GapLookup /\ path = <<>> /\ Len(file.slices) = 2

\* C3 (NotFound): a root lookup of an address inside the File's range that
\* no slice of the File contains returns NotFound(addr), also when the
\* File has no slices and when the address is the exclusive end of a slice.
C3_NotFound ==
    (/\ RootLookup
     /\ Contains(file.absolute_range, addr)
     /\ \A i \in 1 .. Len(file.slices) :
           ~Contains(file.slices[i].absolute_range, addr))
    => result = NotFound(addr)

\* No element of command c contains the address although c does.
Coarse(c, a) ==
    /\ Contains(c.absolute_range, a)
    /\ \A k \in 1 .. Len(c.elements) :
          ~Contains(c.elements[k].absolute_range, a)

\* C4 (Coarse answer): a lookup on a Commands node of an address of its
\* range that none of its elements contains returns Ok with command =
\* Some(own ordinal) and element = None; through the root it returns the
\* slice and command indices and no element.
C4_CoarseAnswer ==
    /\ (CommandsLookup /\ Coarse(CommandAt(file, path), addr))
          => result = OwnCommandOnly(CommandAt(file, path))
    /\ (RootLookup /\ WellFormed(file)) =>
          \A p \in CommandPaths(file) :
              Coarse(CommandAt(file, p), addr) =>
                  result = Ok([slice |-> Some(SliceAt(file, p).my_ordinal),
                               command |-> Some(CommandAt(file, p).my_ordinal),
                               element |-> None])

\* The index the coordinates carry at tree level l (1 slice, 2 command,
\* 3 element).
IndexAt(c, l) ==
    IF l = 1 THEN c.slice ELSE IF l = 2 THEN c.command ELSE c.element

\* Path q lies at or below path p.
Below(p, q) == Len(p) <= Len(q) /\ SubSeq(q, 1, Len(p)) = p

\* Coordinates returned by a lookup on the node at p name the node at q:
\* on every level from p's children down to q they carry q's ordinals.
Identifies(f, c, p, q) ==
    \A l \in Len(p) + 1 .. Len(q) :
        IndexAt(c, l) = Some(NodeAt(f, SubSeq(q, 1, l)).my_ordinal)

\* The sibling that starts where the node at q ends and follows it in
\* ascending order is the one the coordinates carry on q's level.
NextSiblingMatched(f, c, q, a) ==
    LET v == ChildrenAt(f, SubSeq(q, 1, Len(q) - 1))
    IN \E k \in 1 .. Len(v) :
          /\ v[k].absolute_range[1] = a
          /\ Contains(v[k].absolute_range, a)
          /\ v[k].my_ordinal = NodeAt(f, q).my_ordinal + 1
          /\ IndexAt(c, Len(q)) = Some(v[k].my_ordinal)

AllPaths(f) ==
    {<<>>} \cup SlicePaths(f) \cup CommandPaths(f) \cup ElementPaths(f)

\* C5 (Exclusivity of range end): on a well-formed tree, for every node X
\* with range [s, e), a lookup of e on X fails; a lookup of e on X's
\* parent fails or returns the coordinates of X's next sibling, whose
\* range contains e; and no lookup of e on an ancestor returns
\* coordinates that name X.
C5_EndExclusive ==
    (op = "find_address" /\ WellFormed(file)) =>
        \A q \in AllPaths(file) :
            (Below(path, q) /\ NodeAt(file, q).absolute_range[2] = addr) =>
                \/ IsErr(result)
                \/ /\ q # path
                   /\ ~Identifies(file, result.coords, path, q)
                   /\ Len(q) = Len(path) + 1 =>
                         NextSiblingMatched(file, result.coords, q, addr)

C5_Witness ==
    /\ RootLookup
    /\ IsOk(result)
    /\ WellFormed(file)
    /\ \E i \in 1 .. Len(file.slices) :
          file.slices[i].absolute_range[2] = addr

\* C6 (Out-of-bounds): find_address on a File, Commands or CommandElements
\* node with an address outside the node's absolute range returns
\* AddressOutsideCurrentScope with that address and the node's own range
\* and leaves the tree as it was (no child is sorted or looked at); at the
\* root this is every address >= the file size.
C6_OutOfBounds ==
    [][(op' = "find_address" /\ Len(path') \in {0, 2, 3}) =>
          /\ ~Contains(NodeAt(file, path').absolute_range, addr') =>
                /\ result' = AddressOutsideCurrentScope(addr',
                                 NodeAt(file, path').absolute_range)
                /\ file' = file
          /\ (path' = <<>> /\ addr' >= file.end_abs_address) =>
                result'.tag = "AddressOutsideCurrentScope"]_vars

\* A first root lookup out of scope on a File whose slices are stored out
\* of order.
C6_Witness ==
    /\ RootLookup
    /\ ~again
    /\ result.tag = "AddressOutsideCurrentScope"
    /\ Len(file.slices) = 2
    /\ file.slices[1].start_abs_address > file.slices[2].start_abs_address

\* The slice the File's loop finds for the address, when it finds one and
\* that slice's own lookup fails.
FailingSlice ==
    LET children == SortByKeyStart(file.slices)
        out == FileLoop(children, addr, 0, Len(children) - 1)
    IN IF /\ RootLookup
          /\ Contains(file.absolute_range, addr)
          /\ FileHasChildren(file)
          /\ out.kind = "found"
          /\ IsErr(SlicesFindAddress(children[out.mid + 1], addr)[2])
       THEN Some(SlicesFindAddress(children[out.mid + 1], addr)[2])
       ELSE None

\* C7 as claimed (Error propagation): when the recursive call into the
\* slice fails with error E, File.find_address returns that same E.
C7_ErrorPropagation ==
    FailingSlice # None => result = FailingSlice[1]

\* C7 as amended: when the recursive call into the slice fails with any
\* error E, File.find_address returns SliceIsBroken, without E's kind or
\* payload.
C7_SliceIsBroken ==
    FailingSlice # None => result = SliceIsBroken

C7_Witness ==
    /\ FailingSlice # None
    /\ FailingSlice[1].tag = "InconsistentStructure"

\* Every node's ordinal is its place among its siblings in ascending
\* start order.
OrdinalsInOrder(f) ==
    \A p \in AllPaths(f) :
        LET v == ChildrenAt(f, p)
        IN \A i \in 1 .. Len(v) :
              v[i].my_ordinal =
                  Cardinality({j \in 1 .. Len(v) :
                      v[j].start_abs_address < v[i].start_abs_address})

\* The stored vector v has an entry at index ix (Some(i), 0-based) and
\* its range contains the address.
Holds(v, ix, a) ==
    /\ ix[1] < Len(v)
    /\ Contains(v[ix[1] + 1].absolute_range, a)

\* C8 (Re-navigation): on a well-formed tree whose ordinals are the places
\* in ascending start order, whatever the order of attachment, after a
\* root lookup returns Ok(c) the indices of c lead to the containing nodes
\* of the stored tree: file.slices[c.slice], its commands[c.command], and
\* that command's elements[c.element] all contain the address.
C8_ReNavigation ==
    (RootLookup /\ IsOk(result) /\ WellFormed(file) /\ OrdinalsInOrder(file)) =>
        LET c == result.coords
        IN /\ c.slice # None
           /\ Holds(file.slices, c.slice, addr)
           /\ c.command # None =>
                 /\ Holds(file.slices[c.slice[1] + 1].commands, c.command, addr)
                 /\ c.element # None =>
                       Holds(file.slices[c.slice[1] + 1]
                                 .commands[c.command[1] + 1].elements,
                             c.element, addr)

\* C9 (Idempotence): for any tree, whatever the order of attachment, a
\* find_address call repeated on the same node with the same address
\* returns the same result as the call before it.
C9_Idempotence ==
    [][(/\ op = "find_address"
        /\ op' = "find_address"
        /\ path' = path
        /\ addr' = addr) => result' = result]_vars

\* A repeated root lookup that succeeds on a File whose first stored slice
\* was not the first one attached: the first call moved it.
C9_Witness ==
    /\ RootLookup
    /\ again
    /\ IsOk(result)
    /\ Len(file.slices) >= 2
    /\ file.slices[1].my_ordinal # 0

AfterSort == op \in {"get_children", "sort_children"}

ReturnedAsStored ==
    (op = "get_children" /\ returned # None) =>
        returned[1] = ChildrenAt(file, path)

\* C10 as claimed (Sortedness): after get_children or sort_children on a
\* File or Commands node, whatever setters filled its children in, the
\* children are non-decreasing by the start of their absolute range, and
\* get_children returns them in the stored order.
C10_SortedByRangeStart ==
    AfterSort =>
        /\ LET v == ChildrenAt(file, path)
           IN \A i, j \in 1 .. Len(v) :
                 i < j => v[i].absolute_range[1] <= v[j].absolute_range[1]
        /\ ReturnedAsStored

\* C10 as amended: the children are non-decreasing by start_abs_address
\* (the start of the absolute range only while the two fields agree), and
\* get_children returns them in the stored order.
C10_SortedByStartAddress ==
    AfterSort =>
        /\ LET v == ChildrenAt(file, path)
           IN \A i, j \in 1 .. Len(v) :
                 i < j => v[i].start_abs_address <= v[j].start_abs_address
        /\ ReturnedAsStored

\* get_children returned children of which one has a start address that
\* is not the start of its range, and the sort moved a later child ahead
\* of an earlier one.
C10_Witness ==
    /\ op = "get_children"
    /\ returned # None
    /\ \E i \in 1 .. Len(returned[1]) :
          returned[1][i].start_abs_address # returned[1][i].absolute_range[1]
    /\ \E i, j \in 1 .. Len(returned[1]) :
          i < j /\ returned[1][i].my_ordinal > returned[1][j].my_ordinal

\* The loop ran in the last call: a find_address on the File or on a
\* Commands node, with the address in the node's own range and at least
\* one child.  The vector it ran on is the node's sorted vector, which the
\* call left stored at the node.
LoopLookup ==
    /\ op = "find_address"
    /\ Len(path) \in {0, 2}
    /\ InOwnRange

LoopRan == LoopLookup /\ Len(ChildrenAt(file, path)) > 0

\* The iterations of that loop, from start = 0 and end = len - 1.
LoopTrace ==
    LET v == ChildrenAt(file, path)
    IN IF path = <<>>
       THEN FileLoopTrace(v, addr, 0, Len(v) - 1, Len(v) + 1)
       ELSE CommandsLoopTrace(v, addr, 0, Len(v) - 1, Len(v) + 1)

\* How the loop ended, in the terms of FileLoop and CommandsLoop.
LoopOutcome(t) ==
    IF t # <<>> /\ t[Len(t)].kind \in {"found", "inconsistent"}
    THEN [kind |-> t[Len(t)].kind, mid |-> t[Len(t)].mid]
    ELSE [kind |-> "exhausted"]

\* 2 to the power n.
RECURSIVE Pow2(_)
Pow2(n) == IF n = 0 THEN 1 ELSE 2 * Pow2(n - 1)

C12_Soundness ==
    /\ (CommandsLookup /\ IsOk(result)) =>
          LET n == NodeAt(file, path)
              c == result.coords
          IN /\ InOwnRange
             /\ c.command = Some(n.my_ordinal)
             /\ c.slice = None
             /\ c.element # None =>
                   \E i \in 1 .. Len(n.elements) :
                       /\ c.element = Some(n.elements[i].my_ordinal)
                       /\ Contains(n.elements[i].absolute_range, addr)
    /\ (RootLookup /\ IsOk(result)) =>
          LET c == result.coords
          IN /\ InOwnRange
             /\ c.slice # None
             /\ \E i \in 1 .. Len(file.slices) :
                   LET r == SlicesFindAddress(file.slices[i], addr)[2]
                   IN /\ Contains(file.slices[i].absolute_range, addr)
                      /\ IsOk(r)
                      /\ r.coords.slice = c.slice
                      /\ c.slice = Some(file.slices[i].my_ordinal)

\* A lookup on a Commands node that lies outside its slice (a malformed
\* tree) returned Ok with the index of an element.
C12_Witness ==
    /\ CommandsLookup
    /\ IsOk(result)
    /\ result.coords.element # None
    /\ ~Inside(NodeAt(file, path).absolute_range, SliceAt(file, path))

\* How many times x occurs in the vector v.
Occurrences(v, x) == Cardinality({i \in 1 .. Len(v) : v[i] = x})

\* w holds the same nodes as v, each as often, in some order.  A node is
\* compared with everything it owns: its fields and its children vector,
\* in order, down to the leaves.
SameNodes(v, w) ==
    /\ Len(v) = Len(w)
    /\ \A i \in 1 .. Len(v) : Occurrences(w, v[i]) = Occurrences(v, v[i])

\* C13 (Frame of a lookup): find_address on the File changes nothing in
\* the stored tree but, possibly, the order of the File's own slices: the
\* File's fields are unchanged and its slices are the same nodes as
\* before, each with the same ranges, addresses, ordinal and children in
\* the same order, down to the elements (the recursion ran on a copy);
\* a call that returns AddressOutsideCurrentScope changes nothing at all.
C13_Frame ==
    [][(op' = "find_address" /\ path' = <<>>) =>
          /\ [file' EXCEPT !.slices = <<>>] = [file EXCEPT !.slices = <<>>]
          /\ SameNodes(file.slices, file'.slices)
          /\ result'.tag = "AddressOutsideCurrentScope" => file' = file]_vars

\* A root lookup went through a slice to one of its commands, and the
\* slice still stores its commands in the order they were attached, the
\* later one first.
C13_Witness ==
    /\ RootLookup
    /\ IsOk(result)
    /\ result.coords.command # None
    /\ \E i \in 1 .. Len(file.slices) :
          /\ Contains(file.slices[i].absolute_range, addr)
          /\ Len(file.slices[i].commands) = 2
          /\ file.slices[i].commands[1].start_abs_address
                > file.slices[i].commands[2].start_abs_address
====
